---- MODULE Spec2Model ----
(***************************************************************************)
(* Multi-agent chat pipeline: a Pipeline (multi_agent_chat_pipeline.py)    *)
(* owning an AgentCoordinator (agent_coordinator.py).  The registry        *)
(* (AgentCoordinator.agent_configs) is loaded from the AGENT_CONFIGS_JSON  *)
(* valve at construction and replaced by on_valves_updated; a dispatch     *)
(* (pipe -> manage_multi_agent_flow) walks the requested agent ids, builds *)
(* a message context per agent and awaits _call_llm for each.              *)
(*                                                                         *)
(* Python values are given one uniform shape each so that they can be      *)
(* compared: a JSON document is [t, obj, n], a value stored under an agent *)
(* id is [t, system_prompt, model_id], a response is [kind, arg].          *)
(*                                                                         *)
(* Scheduling: the only await of a dispatch is `await self._call_llm(...)` *)
(* (agent_coordinator.py:131).  Everything between two such awaits is one  *)
(* step; while a dispatch waits there the host may deliver                 *)
(* on_valves_updated.  A _call_llm that finds no API key returns before    *)
(* any I/O, so that iteration does not wait at all.                        *)
(***************************************************************************)
EXTENDS Integers, Sequences, FiniteSets, TLC

VARIABLES
    valves,             \* Pipeline.valves: AGENT_CONFIGS_JSON, OPENAI_API_KEY
    coordinator,        \* Pipeline.coordinator: "ok" or "none" (None)
    agent_configs,      \* AgentCoordinator.agent_configs (the registry)
    pc,                 \* position of the dispatch: idle/awaiting/done/raised
    entry,              \* which entry point the caller used: pipe or flow
    model_id,           \* the caller's model id argument
    base_model_id,      \* manage_multi_agent_flow's base_model_id argument
    agent_ids,          \* manage_multi_agent_flow's agent_ids argument
    chat_history,       \* manage_multi_agent_flow's chat_history argument
    user_query,         \* manage_multi_agent_flow's user_query argument
    idx,                \* 1-based position of the loop over agent_ids
    all_agent_results,  \* the list being built, returned when pc = "done"
    frame,              \* loop locals alive across the await of _call_llm
    llm_calls,          \* positions for which _call_llm was invoked
    start_configs,      \* history variable: the registry when the dispatch began
    reloaded            \* history variable: on_valves_updated ran during the dispatch

vars == <<valves, coordinator, agent_configs, pc, entry, model_id,
          base_model_id, agent_ids, chat_history, user_query, idx,
          all_agent_results, frame, llm_calls, start_configs, reloaded>>

-----------------------------------------------------------------------------
(* Bounds of the model *)

MaxAgents == 2      \* longest agent_ids list a caller passes
MaxHist == 5        \* longest chat history a caller passes

-----------------------------------------------------------------------------
(* Python values *)

None == "<None>"

A1 == "analyst_agent_v1"
A2 == "default_responder"
AgentIdSet == {A1, A2}

\* `not x` for a string or None
Falsy(x) == x = None \/ x = ""

\* a value stored under an agent id; a key that is absent holds None
Cfg(sp, mid) == [t |-> "dict", system_prompt |-> sp, model_id |-> mid]
StrValue == [t |-> "str", system_prompt |-> None, model_id |-> None]
Missing == [t |-> "missing", system_prompt |-> None, model_id |-> None]

\* a parsed JSON document
Obj(f) == [t |-> "obj", obj |-> f, n |-> 0]
NoEntries == [a \in AgentIdSet |-> Missing]
Num(k) == [t |-> "num", obj |-> NoEntries, n |-> k]
List(k) == [t |-> "list", obj |-> NoEntries, n |-> k]
EmptyDict == Obj(NoEntries)

Keys(v) == {a \in AgentIdSet : v.obj[a].t # "missing"}

\* `not v` for a parsed document
NotValue(v) ==
    CASE v.t = "obj" -> Keys(v) = {}
      [] v.t = "num" -> v.n = 0
      [] v.t = "list" -> v.n = 0

\* `not c` for the result of dict.get: None, {} are falsy, "str" is truthy
NotConfig(c) ==
    CASE c.t = "missing" -> TRUE
      [] c.t = "dict" -> c.system_prompt = None /\ c.model_id = None
      [] c.t = "str" -> FALSE

\* len(v) raises TypeError for a number
HasLen(v) == v.t # "num"

-----------------------------------------------------------------------------
(* Inputs *)

FullCfg == Cfg("P", "M1")
A1Values == {Missing, FullCfg, Cfg("", None), Cfg(None, ""), Cfg(None, None),
             StrValue}
A2Values == {Missing, Cfg("P2", None)}

Objects ==
    {Obj([a \in AgentIdSet |-> IF a = A1 THEN v1 ELSE v2]) :
        <<v1, v2>> \in {p \in A1Values \X A2Values :
                          p[2] = Missing \/ p[1] \in {Missing, FullCfg}}}

JsonValues == Objects \cup {Num(5), List(1)}

\* the AGENT_CONFIGS_JSON text: either not JSON at all (json = FALSE), or the
\* text of the JSON value `text`
Blobs == {[json |-> FALSE, text |-> EmptyDict]} \cup
         {[json |-> TRUE, text |-> v] : v \in JsonValues}

ApiKeys == {"", "sk"}
ModelIds == {"", "B"}
Queries == {"q"}

Msg(role, content) == [role |-> role, content |-> content]

\* a history of n messages, alternating user and assistant, all different
History(n) ==
    [i \in 1..n |-> Msg(IF i % 2 = 1 THEN "user" ELSE "assistant", ToString(i))]
Histories == {History(n) : n \in {0, 2, 4, MaxHist}}

RECURSIVE SeqsUpTo(_, _)
SeqsUpTo(S, n) ==
    IF n = 0 THEN {<<>>}
    ELSE LET shorter == SeqsUpTo(S, n - 1)
         IN shorter \cup {Append(s, x) : s \in shorter, x \in S}

IdLists == SeqsUpTo(AgentIdSet, MaxAgents)

\* body["agent_ids"]: absent, not a list, a list with a non-string, a list
Bodies == {[kind |-> k, ids |-> <<>>] : k \in {"absent", "not_list", "mixed_list"}}
          \cup {[kind |-> "list", ids |-> s] : s \in IdLists}

Outcomes == {"content", "unexpected_structure", "http_error", "exception"}

-----------------------------------------------------------------------------
(* json.loads and the registry load / reload *)

json_loads(blob) ==
    IF blob.json THEN [raised |-> FALSE, value |-> blob.text]
    ELSE [raised |-> TRUE, value |-> EmptyDict]


\* AgentCoordinator.__init__ run inside Pipeline.__init__'s try/except:
\* a decode error leaves {}, a value without len() makes the print raise
\* TypeError, which Pipeline.__init__ answers with coordinator = None
NewCoordinator(blob) ==
    LET r == json_loads(blob)
    IN IF r.raised THEN [coordinator |-> "ok", agent_configs |-> EmptyDict]
       ELSE IF HasLen(r.value)
            THEN [coordinator |-> "ok", agent_configs |-> r.value]
            ELSE [coordinator |-> "none", agent_configs |-> EmptyDict]

\* on_valves_updated: the registry after the hook ran with `blob` set; the
\* assignment precedes the print, so a TypeError of len() leaves the value
\* assigned
ReloadedConfigs(old, blob) ==
    LET r == json_loads(blob)
    IN IF r.raised THEN EmptyDict ELSE r.value

-----------------------------------------------------------------------------
(* manage_multi_agent_flow *)

GENERIC_SYSTEM_PROMPT == "You are a helpful assistant."
DEFAULT_AGENT_MODEL_ID == "gpt-3.5-turbo"
HISTORY_WINDOW == 4

Resp(kind, arg) == [kind |-> kind, arg |-> arg]
Result(id, response) == [agent_id |-> id, response |-> response]

NotLoadedResult(id) == Result(id, Resp("not_loaded", ""))
NoConfigResult(id) == Result(id, Resp("no_config", id))
SystemError == Result("system_error", Resp("coordinator_not_initialized", ""))
SystemMessage == Result("system_message", Resp("no_agents_specified", ""))

\* self.agent_configs is read anew in every iteration of the loop
RegistryAtStart(current, atStart) == atStart
RegistryForLookup(current, atStart) == current

\* self.agent_configs.get(agent_id)
LookupConfig(reg, id) == reg.obj[id]

\* the placeholder appended for an id without configuration
AppendNoConfig(results, id) == Append(results, NoConfigResult(id))

\* agent_config.get("system_prompt", "You are a helpful assistant.")
SystemPromptOrGeneric(cfg) ==
    IF Falsy(cfg.system_prompt) THEN GENERIC_SYSTEM_PROMPT ELSE cfg.system_prompt
SystemPrompt(cfg) ==
    IF cfg.system_prompt = None THEN GENERIC_SYSTEM_PROMPT ELSE cfg.system_prompt

\* the three-level model id fallback
AgentModelIdBaseFirst(cfg, base) ==
    IF ~Falsy(base) THEN base
    ELSE IF ~Falsy(cfg.model_id) THEN cfg.model_id
    ELSE DEFAULT_AGENT_MODEL_ID
AgentModelId(cfg, base) ==
    IF ~Falsy(cfg.model_id) THEN cfg.model_id
    ELSE IF ~Falsy(base) THEN base
    ELSE DEFAULT_AGENT_MODEL_ID

\* chat_history[-4:]
HistoryFirstFour(history) ==
    SubSeq(history, 1, IF Len(history) > HISTORY_WINDOW THEN HISTORY_WINDOW
                       ELSE Len(history))
HistoryToInclude(history) ==
    LET n == Len(history)
        first == IF n > HISTORY_WINDOW THEN n - HISTORY_WINDOW + 1 ELSE 1
    IN SubSeq(history, first, n)

\* current_agent_messages
AgentMessages(cfg, history, query) ==
    <<Msg("system", SystemPrompt(cfg))>> \o HistoryToInclude(history)
        \o <<Msg("user", query)>>

\* _call_llm with no API key returns at once, without any I/O
NoApiKey(key) == Falsy(key)
NoApiKeyResponse == Resp("no_api_key", "")

\* _call_llm's return value for each way the POST can end: content of the
\* first choice, the else branch for an unexpected structure, the HTTPError
\* handler, the catch-all handler (transport errors, malformed JSON, a null
\* content); every one is a string
LLMResponse(outcome) ==
    CASE outcome = "content" -> Resp("content", "hello")
      [] outcome = "unexpected_structure" -> Resp("unexpected_structure", "")
      [] outcome = "http_error" -> Resp("http_error", "")
      [] outcome = "exception" -> Resp("unexpected_error", "")

NoFrame == [agent_id |-> None, agent_config |-> Missing,
            agent_model_id |-> None, messages |-> <<>>]

Stop(at, i, results, calls) ==
    [pc |-> at, idx |-> i, results |-> results, frame |-> NoFrame,
     calls |-> calls]

\* the for loop from position i until it returns, raises, or suspends in
\* `await self._call_llm(...)`
RECURSIVE RunLoop(_, _, _, _, _, _)
RunLoop(reg, key, req, i, results, calls) ==
    IF i > Len(req.agent_ids) THEN Stop("done", i, results, calls)
    ELSE IF reg.t # "obj" THEN Stop("raised", i, results, calls)
    ELSE LET id == req.agent_ids[i]
             cfg == LookupConfig(reg, id)
         IN IF NotConfig(cfg)
            THEN RunLoop(reg, key, req, i + 1,
                         AppendNoConfig(results, id), calls)
            ELSE IF cfg.t # "dict" THEN Stop("raised", i, results, calls)
            ELSE IF NoApiKey(key)
            THEN RunLoop(reg, key, req, i + 1,
                         Append(results, Result(id, NoApiKeyResponse)),
                         Append(calls, i))
            ELSE [pc |-> "awaiting", idx |-> i, results |-> results,
                  frame |-> [agent_id |-> id, agent_config |-> cfg,
                             agent_model_id |->
                                 AgentModelId(cfg, req.base_model_id),
                             messages |->
                                 AgentMessages(cfg, req.chat_history,
                                               req.user_query)],
                  calls |-> Append(calls, i)]

\* the registry-empty short circuit
ConfigsNeverChecked(reg) == FALSE
ConfigsNotLoaded(reg) == NotValue(reg)

\* one "not loaded" result per requested id
NotLoadedResults(ids) == [i \in 1..Len(ids) |-> NotLoadedResult(ids[i])]

\* manage_multi_agent_flow from its first line to its first suspension
ManageMultiAgentFlow(reg, key, req) ==
    IF ConfigsNotLoaded(reg)
    THEN Stop("done", Len(req.agent_ids) + 1,
              NotLoadedResults(req.agent_ids), <<>>)
    ELSE RunLoop(reg, key, req, 1, <<>>, <<>>)

-----------------------------------------------------------------------------
(* pipe *)

DefaultAgentIds == <<A1, A2>>

\* agent_ids_to_run after the isinstance validation
AgentIdsToRun(body) ==
    IF body.kind = "list" THEN body.ids ELSE DefaultAgentIds

\* base_model_id = model_id if model_id else DEFAULT_AGENT_MODEL_ID
PipeBaseModelId(model) ==
    IF ~Falsy(model) THEN model ELSE DEFAULT_AGENT_MODEL_ID

Request(ids, base, history, query) ==
    [agent_ids |-> ids, base_model_id |-> base, chat_history |-> history,
     user_query |-> query]

PipeOutcomeNoEmptyCheck(model, history, query, body) ==
    IF coordinator = "none" THEN Stop("done", 1, <<SystemError>>, <<>>)
    ELSE ManageMultiAgentFlow(agent_configs, valves.OPENAI_API_KEY,
                              Request(AgentIdsToRun(body),
                                      PipeBaseModelId(model), history, query))
PipeOutcome(model, history, query, body) ==
    IF coordinator = "none" THEN Stop("done", 1, <<SystemError>>, <<>>)
    ELSE IF AgentIdsToRun(body) = <<>>
         THEN Stop("done", 1, <<SystemMessage>>, <<>>)
         ELSE ManageMultiAgentFlow(agent_configs, valves.OPENAI_API_KEY,
                                   Request(AgentIdsToRun(body),
                                           PipeBaseModelId(model),
                                           history, query))

-----------------------------------------------------------------------------
(* State machine *)

Settle(out) ==
    /\ pc' = out.pc
    /\ idx' = out.idx
    /\ all_agent_results' = out.results
    /\ frame' = out.frame
    /\ llm_calls' = out.calls

Init ==
    /\ valves \in [AGENT_CONFIGS_JSON : Blobs, OPENAI_API_KEY : ApiKeys]
    /\ coordinator = NewCoordinator(valves.AGENT_CONFIGS_JSON).coordinator
    /\ agent_configs = NewCoordinator(valves.AGENT_CONFIGS_JSON).agent_configs
    /\ pc = "idle"
    /\ entry = "none"
    /\ model_id = ""
    /\ base_model_id = ""
    /\ agent_ids = <<>>
    /\ chat_history = <<>>
    /\ user_query = "q"
    /\ idx = 1
    /\ all_agent_results = <<>>
    /\ frame = NoFrame
    /\ llm_calls = <<>>
    /\ start_configs = agent_configs
    /\ reloaded = FALSE

\* the host sets a new AGENT_CONFIGS_JSON (the one valve the hook reads) and
\* calls on_valves_updated: before a request, or while one is suspended in
\* its await (pc "done" and "raised" are the instant at which the call hands
\* its outcome to the caller)
OnValvesUpdated ==
    \E blob \in Blobs :
        /\ pc \in {"idle", "awaiting"}
        /\ valves' = [valves EXCEPT !.AGENT_CONFIGS_JSON = blob]
        /\ agent_configs' = IF coordinator = "ok"
                            THEN ReloadedConfigs(agent_configs, blob)
                            ELSE agent_configs
        /\ reloaded' = (pc = "awaiting")
        /\ UNCHANGED <<coordinator, pc, entry, model_id, base_model_id,
                       agent_ids, chat_history, user_query, idx,
                       all_agent_results, frame, llm_calls, start_configs>>

\* the host calls pipe(user_message, model_id, messages, body)
Pipe ==
    \E model \in ModelIds, history \in Histories, query \in Queries,
       body \in Bodies :
        /\ pc = "idle"
        /\ entry' = "pipe"
        /\ model_id' = model
        /\ base_model_id' = IF coordinator = "none" THEN ""
                            ELSE PipeBaseModelId(model)
        /\ agent_ids' = IF coordinator = "none" THEN <<>>
                        ELSE AgentIdsToRun(body)
        /\ chat_history' = history
        /\ user_query' = query
        /\ start_configs' = agent_configs
        /\ reloaded' = FALSE
        /\ Settle(PipeOutcome(model, history, query, body))
        /\ UNCHANGED <<valves, coordinator, agent_configs>>

\* a caller invokes manage_multi_agent_flow on the coordinator directly
Flow ==
    \E ids \in IdLists, base \in ModelIds, history \in Histories,
       query \in Queries :
        /\ pc = "idle"
        /\ coordinator = "ok"
        /\ entry' = "flow"
        /\ model_id' = base
        /\ base_model_id' = base
        /\ agent_ids' = ids
        /\ chat_history' = history
        /\ user_query' = query
        /\ start_configs' = agent_configs
        /\ reloaded' = FALSE
        /\ Settle(ManageMultiAgentFlow(agent_configs, valves.OPENAI_API_KEY,
                                       Request(ids, base, history, query)))
        /\ UNCHANGED <<valves, coordinator, agent_configs>>

\* the awaited _call_llm returns; the loop appends the result and goes on to
\* the next suspension, reading the registry and the valves as they are now
LLMReturns ==
    \E outcome \in Outcomes :
        /\ pc = "awaiting"
        /\ Settle(RunLoop(RegistryForLookup(agent_configs, start_configs),
                          valves.OPENAI_API_KEY,
                          Request(agent_ids, base_model_id, chat_history,
                                  user_query),
                          idx + 1,
                          Append(all_agent_results,
                                 Result(frame.agent_id, LLMResponse(outcome))),
                          llm_calls))
        /\ UNCHANGED <<valves, coordinator, agent_configs, entry, model_id,
                       base_model_id, agent_ids, chat_history, user_query,
                       start_configs, reloaded>>

\* `return all_agent_results` (or the exception) reaches the caller and the
\* call's frame is gone
Return ==
    /\ pc \in {"done", "raised"}
    /\ pc' = "idle"
    /\ entry' = "none"
    /\ model_id' = ""
    /\ base_model_id' = ""
    /\ agent_ids' = <<>>
    /\ chat_history' = <<>>
    /\ idx' = 1
    /\ all_agent_results' = <<>>
    /\ frame' = NoFrame
    /\ llm_calls' = <<>>
    /\ start_configs' = agent_configs
    /\ reloaded' = FALSE
    /\ UNCHANGED <<valves, coordinator, agent_configs, user_query>>

Next == OnValvesUpdated \/ Pipe \/ Flow \/ LLMReturns \/ Return

Spec == Init /\ [][Next]_vars

-----------------------------------------------------------------------------
(* Properties *)

\* the call went through manage_multi_agent_flow
FlowReached ==
    \/ entry = "flow"
    \/ entry = "pipe" /\ coordinator = "ok" /\ agent_ids # <<>>

Kind(i) == all_agent_results[i].response.kind

RegistryEmpty(reg) == reg.t = "obj" /\ \A a \in AgentIdSet : reg.obj[a].t = "missing"

Min(a, b) == IF a < b THEN a ELSE b

\* C1 as stated: for every non-empty agent_ids, every registry and every
\* backend outcome a call of manage_multi_agent_flow ends by returning one
\* result per requested id, the i-th carrying the i-th id (duplicates and
\* unknown ids included).
C1_OneResultPerId ==
    (FlowReached /\ agent_ids # <<>> /\ pc \in {"done", "raised"}) =>
        /\ pc = "done"
        /\ Len(all_agent_results) = Len(agent_ids)
        /\ \A i \in 1..Len(all_agent_results) :
              all_agent_results[i].agent_id = agent_ids[i]

\* The part of C1 that holds: a call that does return, returns one result
\* per requested id in the order of the request, and while it is suspended
\* the results so far are those of the positions before the current one.
ReturnedResultsInOrder ==
    (FlowReached /\ agent_ids # <<>>) =>
        /\ pc = "done" => Len(all_agent_results) = Len(agent_ids)
        /\ pc = "awaiting" => Len(all_agent_results) = idx - 1
        /\ pc \in {"done", "awaiting"} =>
              \A i \in 1..Len(all_agent_results) :
                  all_agent_results[i].agent_id = agent_ids[i]

\* C2 as stated: whenever the coordinator exists, a call with an empty
\* agent_ids list, through pipe or through manage_multi_agent_flow, returns
\* exactly the one "no agents specified" entry and invokes no backend.
C2_EmptyListAnyEntry ==
    (pc = "done" /\ coordinator = "ok" /\ entry \in {"pipe", "flow"}
        /\ agent_ids = <<>>) =>
        all_agent_results = <<SystemMessage>> /\ llm_calls = <<>>

\* C2 amended: pipe answers an empty agent_ids list with exactly the one
\* "no agents specified" entry, whatever the registry holds, and invokes no
\* backend; manage_multi_agent_flow called with an empty list returns the
\* empty list.
C2_EmptyListByEntry ==
    (pc = "done" /\ coordinator = "ok" /\ agent_ids = <<>>) =>
        /\ llm_calls = <<>>
        /\ entry = "pipe" => all_agent_results = <<SystemMessage>>
        /\ entry = "flow" => all_agent_results = <<>>

C2_Witness ==
    /\ pc = "done" /\ entry = "pipe" /\ coordinator = "ok"
    /\ agent_ids = <<>> /\ RegistryEmpty(agent_configs)
    /\ all_agent_results = <<SystemMessage>>

\* C3 as stated: in a dispatch over a non-empty registry that no reload
\* interrupted, a position whose id is not a key of the registry gets the
\* "no configuration" error naming the id and no backend call, a position
\* whose id is a key gets exactly one backend call, and the number of calls
\* is the number of positions holding registered ids.
C3_CallsMatchRegisteredIds ==
    (pc = "done" /\ FlowReached /\ ~reloaded /\ ~RegistryEmpty(start_configs)) =>
        LET registered == {i \in 1..Len(agent_ids) :
                              start_configs.obj[agent_ids[i]].t # "missing"}
            called(i) == {k \in 1..Len(llm_calls) : llm_calls[k] = i}
        IN /\ \A i \in (1..Len(agent_ids)) \ registered :
                 /\ all_agent_results[i] = NoConfigResult(agent_ids[i])
                 /\ called(i) = {}
           /\ \A i \in registered : Cardinality(called(i)) = 1
           /\ Len(llm_calls) = Cardinality(registered)

\* C4: the model id handed to _call_llm is the agent configuration's
\* model_id when present and non-empty, else the caller's model id when
\* non-empty, else DEFAULT_AGENT_MODEL_ID, through pipe and through
\* manage_multi_agent_flow alike.
C4_ModelIdPriority ==
    pc = "awaiting" =>
        frame.agent_model_id =
            IF frame.agent_config.model_id \notin {None, ""}
            THEN frame.agent_config.model_id
            ELSE IF model_id # "" THEN model_id
            ELSE DEFAULT_AGENT_MODEL_ID

C4_Witness ==
    /\ pc = "awaiting" /\ entry = "pipe"
    /\ frame.agent_config.model_id = "" /\ model_id = ""
    /\ frame.agent_model_id = DEFAULT_AGENT_MODEL_ID

\* C5: for a history of n messages the context built for an agent is one
\* system message, the last min(4, n) history entries in their order, and
\* one user message carrying user_query; the history itself is unchanged.
C5_HistoryWindow ==
    pc = "awaiting" =>
        LET n == Len(chat_history)
            k == Min(4, n)
        IN /\ Len(frame.messages) = k + 2
           /\ frame.messages[1].role = "system"
           /\ \A j \in 1..k : frame.messages[1 + j] = chat_history[n - k + j]
           /\ frame.messages[k + 2] = Msg("user", user_query)
           /\ chat_history = History(n)

C5_Witness ==
    /\ pc = "awaiting" /\ idx = 2 /\ Len(chat_history) > 4
    /\ Len(frame.messages) = 6

\* C6 as stated: the registry is that of the most recent blob alone: the
\* mapping it holds when the blob is a valid configuration (a JSON object
\* of agent id -> configuration object), and empty otherwise.
ValidConfiguration(blob) ==
    /\ blob.json
    /\ blob.text.t = "obj"
    /\ \A a \in AgentIdSet : blob.text.obj[a].t \in {"missing", "dict"}

C6_RegistryOfLatestBlob ==
    coordinator = "ok" =>
        agent_configs = IF ValidConfiguration(valves.AGENT_CONFIGS_JSON)
                        THEN valves.AGENT_CONFIGS_JSON.text
                        ELSE EmptyDict

\* C7: a dispatch that starts on an empty registry returns the "not loaded"
\* error for every requested id, in order, and never invokes the backend;
\* the check is made once, at the start: a dispatch that started on a
\* non-empty registry never emits that error.
C7_NotLoadedShortCircuit ==
    FlowReached =>
        /\ RegistryEmpty(start_configs) =>
              /\ pc = "done"
              /\ llm_calls = <<>>
              /\ Len(all_agent_results) = Len(agent_ids)
              /\ \A i \in 1..Len(agent_ids) :
                    all_agent_results[i] = NotLoadedResult(agent_ids[i])
        /\ ~RegistryEmpty(start_configs) =>
              \A i \in 1..Len(all_agent_results) : Kind(i) # "not_loaded"

C7_Witness ==
    /\ pc = "done" /\ entry = "pipe" /\ RegistryEmpty(start_configs)
    /\ Len(agent_ids) = 2 /\ Kind(2) = "not_loaded"

\* C8 as stated: whatever registry load or reload produced and however the
\* backend call ends, manage_multi_agent_flow does not raise, and it
\* returns a result for every requested id.
C8_ErrorsAreData ==
    /\ pc # "raised"
    /\ (pc = "done" /\ FlowReached /\ agent_ids # <<>>) =>
           Len(all_agent_results) = Len(agent_ids)

\* C9 as stated: the first message of a built context is a system message
\* holding the configuration's system_prompt when present and non-empty,
\* and the generic prompt when it is absent or the empty string.
C9_GenericPromptWhenEmpty ==
    pc = "awaiting" =>
        frame.messages[1] =
            Msg("system",
                IF frame.agent_config.system_prompt \in {None, ""}
                THEN GENERIC_SYSTEM_PROMPT
                ELSE frame.agent_config.system_prompt)

\* C9 amended: the first message of a built context is a system message
\* holding the configuration's system_prompt whenever the key is present,
\* the empty string included, and the generic prompt only when the key is
\* absent.
C9_GenericPromptWhenAbsent ==
    pc = "awaiting" =>
        frame.messages[1] =
            Msg("system",
                IF frame.agent_config.system_prompt = None
                THEN GENERIC_SYSTEM_PROMPT
                ELSE frame.agent_config.system_prompt)

C9_Witness ==
    /\ pc = "awaiting"
    /\ frame.agent_config.system_prompt = ""
    /\ frame.messages[1] = Msg("system", "")

\* C10 as stated: a dispatch resolves every id against the registry that
\* was current when it started, also when on_valves_updated replaces the
\* registry while the dispatch is suspended in a backend call.
C10_SnapshotIsolation ==
    (FlowReached /\ pc \in {"awaiting", "done"}
        /\ ~RegistryEmpty(start_configs)) =>
        /\ \A i \in 1..Len(all_agent_results) :
              (Kind(i) = "no_config") <=>
                  NotConfig(LookupConfig(start_configs, agent_ids[i]))
        /\ pc = "awaiting" =>
              frame.agent_config = LookupConfig(start_configs, frame.agent_id)

\* C10 amended: only the registry-empty check uses the registry of the
\* dispatch's start; each id is looked up in the registry that is current
\* when its turn comes, so when the dispatch resumes after a backend call
\* the ids it then passes are resolved against the registry as reloaded.
C10_LookupInCurrentRegistry ==
    [][(pc = "awaiting" /\ idx' > idx) =>
          /\ \A i \in (idx + 1)..Len(all_agent_results') :
                (all_agent_results'[i].response.kind = "no_config") <=>
                    NotConfig(LookupConfig(agent_configs, agent_ids[i]))
          /\ pc' = "awaiting" =>
                frame'.agent_config =
                    LookupConfig(agent_configs, frame'.agent_id)]_vars

C10_Witness ==
    /\ pc = "done" /\ reloaded
    /\ Len(agent_ids) = 2 /\ agent_ids[1] = agent_ids[2]
    /\ ~NotConfig(LookupConfig(start_configs, agent_ids[2]))
    /\ Kind(1) = "content" /\ Kind(2) = "no_config"

====
